---- MODULE Spec2Model ----
(***************************************************************************)
(* Model of the Daily-Stats-Bot (src/pytelebot/main2.py): the SQLite event *)
(* log of SleepTrackerBot, its three read queries, the three renderers and *)
(* the Telegram handlers that drive them.                                  *)
(*                                                                         *)
(* Texts are modelled by their fields: the text '%Y-%m-%d %H:%M:%S' of an  *)
(* instant is the tuple <<date, time>>, the text '%Y-%m-%d' is <<date>>.   *)
(* A date is a day number (day 0 is a Monday), a time is the second of the *)
(* day; the day is scaled down to SecondsPerDay seconds, so that second 0  *)
(* is 00:00:00 and second SecondsPerDay - 1 is 23:59:59.                   *)
(***************************************************************************)
EXTENDS Integers, Sequences, FiniteSets

(* ------------------------------ bounds -------------------------------- *)
\* the seconds of a (scaled-down) day
SecondsPerDay == 2
\* how often the local wall clock is set back
MaxFallBacks == 1
\* Spec, SpecLog, SpecIso: the rows inserted, and the last reading of the
\* wall clock
MaxEvents == 2
MaxNow == 3
\* SpecWeek: the rows inserted, and the last reading of the wall clock
MaxWeekEvents == 2
MaxWeekNow == 15

(* --------------------------- program constants ------------------------ *)
DaysPerWeek == 7

\* EVENT_TYPES: kind -> label (the Russian labels, transliterated)
EVENT_TYPES ==
  [k \in {"sleep", "wake_up", "breakfast", "lunch", "dinner",
          "workout_start", "workout_end"} |->
     CASE k = "sleep" -> "Legla spat"
       [] k = "wake_up" -> "Vstala utrom"
       [] k = "breakfast" -> "Zavtrak"
       [] k = "lunch" -> "Obed"
       [] k = "dinner" -> "Uzhin"
       [] k = "workout_start" -> "Nachala trenirovku"
       [] k = "workout_end" -> "Zakonchila trenirovku"]

\* the header row written by to_csv for csv_df's columns
CsvHeader == <<"date", "time", "event_name", "event_type", "timestamp">>

(* ------------------------------ inputs -------------------------------- *)
\* user ids delivered by the transport
Users == {1, 2}
\* callback data delivered by the transport: two buttons of the keyboard and
\* one value no button of the keyboard carries
CallbackData == {"sleep", "breakfast", "snack"}
\* the same, with one button of the keyboard
FewCallbackData == {"sleep", "snack"}

\* Python's None, as the value a renderer returns for an empty frame
None == [absent |-> TRUE]

\* no callback data (a command), no user (before the first update), no time
\* in the text sent
NoData == ""
NoUser == 0
NoTime == <<>>

VARIABLES
  events,           \* the rows of table events, in rowid order
  sqlite_sequence,  \* AUTOINCREMENT: the largest id ever assigned
  now,              \* the local wall clock, in seconds since day 0 00:00:00
  fallbacks,        \* how often the local wall clock has been set back
  reply             \* the last update handled and what was sent back

vars == <<events, sqlite_sequence, now, fallbacks, reply>>

(* ------------------------------- time --------------------------------- *)
\* datetime.strftime('%Y-%m-%d %H:%M:%S')
strftime(t) == <<t \div SecondsPerDay, t % SecondsPerDay>>

\* datetime.strftime('%Y-%m-%d')
strftime_date(t) == <<t \div SecondsPerDay>>

\* datetime.strftime('%H:%M:%S')
strftime_time(t) == <<t % SecondsPerDay>>

\* pd.to_datetime / datetime.strptime of a '%Y-%m-%d %H:%M:%S' text
to_datetime(text) == text[1] * SecondsPerDay + text[2]

\* SQLite date(): the '%Y-%m-%d' text of a date or date-time text
date(text) == <<text[1]>>

\* datetime.weekday(): Monday is 0
weekday(t) == (t \div SecondsPerDay) % DaysPerWeek

\* mutant of start_of_week: the week is taken to begin on Sunday
start_of_week_sunday(t) ==
  t - (((t \div SecondsPerDay) + 1) % DaysPerWeek) * SecondsPerDay

\* today - timedelta(days=today.weekday())
start_of_week(t) == t - weekday(t) * SecondsPerDay

\* SQLite's comparison of two texts (memcmp): field by field, a proper
\* prefix first
RECURSIVE TextLess(_, _)
TextLess(a, b) ==
  IF a = <<>> THEN b # <<>>
  ELSE IF b = <<>> THEN FALSE
  ELSE IF Head(a) # Head(b) THEN Head(a) < Head(b)
  ELSE TextLess(Tail(a), Tail(b))

TextLeq(a, b) == a = b \/ TextLess(a, b)

(* ---------------------------- Event Store ----------------------------- *)
\* ORDER BY timestamp: SQLite's sorter over the rows in rowid order, by the
\* text of the timestamp; rows with equal keys keep the order in which they
\* were fed to it. Place(i) is the place of rows[i] in the result.
OrderByTimestamp(rows) ==
  LET n == Len(rows)
      Place(i) == Cardinality({j \in 1..n :
                    \/ TextLess(rows[j].timestamp, rows[i].timestamp)
                    \/ rows[j].timestamp = rows[i].timestamp /\ j <= i})
  IN [p \in 1..n |-> rows[CHOOSE i \in 1..n : Place(i) = p]]

\* SELECT event_type, timestamp
Columns(rows) ==
  [i \in 1..Len(rows) |->
     [event_type |-> rows[i].event_type, timestamp |-> rows[i].timestamp]]

\* mutant of get_today_events: date(timestamp) >= date(?)
get_today_events_since(user_id) ==
  LET today == strftime_date(now)
  IN Columns(OrderByTimestamp(SelectSeq(events,
       LAMBDA r : r.user_id = user_id /\ TextLeq(date(today), date(r.timestamp)))))

\* WHERE user_id = ? AND date(timestamp) = date(?) ORDER BY timestamp
get_today_events(user_id) ==
  LET today == strftime_date(now)
  IN Columns(OrderByTimestamp(SelectSeq(events,
       LAMBDA r : r.user_id = user_id /\ date(r.timestamp) = date(today))))

\* WHERE user_id = ? AND date(timestamp) >= date(?) ORDER BY timestamp
get_week_events(user_id) ==
  LET start_of_week_str == strftime_date(start_of_week(now))
  IN Columns(OrderByTimestamp(SelectSeq(events,
       LAMBDA r : r.user_id = user_id
                  /\ TextLeq(date(start_of_week_str), date(r.timestamp)))))

\* mutant of get_all_events: no ORDER BY, the rows come in rowid order
get_all_events_unordered(user_id) ==
  Columns(SelectSeq(events, LAMBDA r : r.user_id = user_id))

\* mutant of get_all_events: no WHERE user_id = ?
get_all_events_any_user(user_id) ==
  Columns(OrderByTimestamp(events))

\* WHERE user_id = ? ORDER BY timestamp
get_all_events(user_id) ==
  Columns(OrderByTimestamp(SelectSeq(events, LAMBDA r : r.user_id = user_id)))

\* the row INSERT INTO events (user_id, event_type, timestamp) adds
NewRow(user_id, event_type, timestamp) ==
  [id |-> sqlite_sequence + 1, user_id |-> user_id,
   event_type |-> event_type, timestamp |-> timestamp]

\* mutant of save_event: INSERT OR REPLACE over the newest row
save_event_replace(user_id, event_type) ==
  /\ events' = IF events = <<>>
               THEN <<NewRow(user_id, event_type, strftime(now))>>
               ELSE [events EXCEPT ![Len(events)] =
                       NewRow(user_id, event_type, strftime(now))]
  /\ sqlite_sequence' = sqlite_sequence + 1

\* save_event with the storage available: one row is inserted and committed
save_event(user_id, event_type) ==
  /\ events' = Append(events, NewRow(user_id, event_type, strftime(now)))
  /\ sqlite_sequence' = sqlite_sequence + 1

(* ------------------------------ Renderer ------------------------------ *)
\* create_timeline_plot: None for an empty frame, else one marker per row
create_timeline_plot(user_id) ==
  LET df == get_today_events(user_id)
  IN IF df = <<>> THEN None
     ELSE [png |-> [i \in 1..Len(df) |->
                      [x |-> to_datetime(df[i].timestamp), y |-> i,
                       label |-> EVENT_TYPES[df[i].event_type]]]]

\* create_week_plot: None for an empty frame, else one point per row, at its
\* day of the week and its time of day (dt.hour + dt.minute / 60, here the
\* second of the scaled-down day)
create_week_plot(user_id) ==
  LET df == get_week_events(user_id)
  IN IF df = <<>> THEN None
     ELSE [png |-> [i \in 1..Len(df) |->
                      [event_type |-> df[i].event_type,
                       day_of_week |-> weekday(to_datetime(df[i].timestamp)),
                       hour |-> to_datetime(df[i].timestamp) % SecondsPerDay]]]

\* to_csv's text of a datetime64 column: the dates alone when no value of
\* the column has a time of day, else '%Y-%m-%d %H:%M:%S'
FormatDatetimeColumn(column) ==
  IF \A i \in 1..Len(column) : column[i] % SecondsPerDay = 0
  THEN [i \in 1..Len(column) |-> strftime_date(column[i])]
  ELSE [i \in 1..Len(column) |-> strftime(column[i])]

\* mutant of create_csv_data: no early return, an empty frame gives the
\* header row alone
create_csv_data_never_none(user_id) ==
  LET df == get_all_events(user_id)
      timestamp == [i \in 1..Len(df) |-> to_datetime(df[i].timestamp)]
      text == FormatDatetimeColumn(timestamp)
  IN [csv |-> <<CsvHeader>> \o
              [i \in 1..Len(df) |->
                 <<strftime_date(timestamp[i]), strftime_time(timestamp[i]),
                   EVENT_TYPES[df[i].event_type], df[i].event_type, text[i]>>]]

\* create_csv_data: None for an empty frame, else the header row and one
\* row date,time,event_name,event_type,timestamp per event
create_csv_data(user_id) ==
  LET df == get_all_events(user_id)
      timestamp == [i \in 1..Len(df) |-> to_datetime(df[i].timestamp)]
      text == FormatDatetimeColumn(timestamp)
  IN IF df = <<>> THEN None
     ELSE [csv |-> <<CsvHeader>> \o
                   [i \in 1..Len(df) |->
                      <<strftime_date(timestamp[i]), strftime_time(timestamp[i]),
                        EVENT_TYPES[df[i].event_type], df[i].event_type,
                        text[i]>>]]

(* ----------------------------- Bot Surface ---------------------------- *)
\* what a handler leaves in reply: the update it handled (op, user_id, data),
\* whether the storage was available to it, what it sent back (out, and the
\* time written in a confirmation); n counts the updates handled, modulo 2
Sent(op, user_id, data, storage_ok, out, time) ==
  [op |-> op, user_id |-> user_id, data |-> data, storage_ok |-> storage_ok,
   out |-> out, time |-> time, n |-> 1 - reply.n]

\* mutant of button_handler: the row is written although save_event raised
button_handler_retry(user_id, event_type, storage_ok) ==
  /\ IF event_type \in DOMAIN EVENT_TYPES
     THEN /\ save_event(user_id, event_type)
          /\ reply' = IF storage_ok
                      THEN Sent("button", user_id, event_type, storage_ok,
                                "confirmation",
                                strftime_time(to_datetime(strftime(now))))
                      ELSE Sent("button", user_id, event_type, storage_ok,
                                "save_error", NoTime)
     ELSE /\ UNCHANGED <<events, sqlite_sequence>>
          /\ reply' = Sent("button", user_id, event_type, storage_ok,
                           "nothing_sent", NoTime)
  /\ UNCHANGED <<now, fallbacks>>

\* mutant of button_handler: no test of event_type in EVENT_TYPES
button_handler_any_kind(user_id, event_type, storage_ok) ==
  /\ IF storage_ok
     THEN /\ save_event(user_id, event_type)
          /\ reply' = Sent("button", user_id, event_type, storage_ok,
                           "confirmation",
                           strftime_time(to_datetime(strftime(now))))
     ELSE /\ UNCHANGED <<events, sqlite_sequence>>
          /\ reply' = Sent("button", user_id, event_type, storage_ok,
                           "save_error", NoTime)
  /\ UNCHANGED <<now, fallbacks>>

\* button_handler: a known kind is saved and confirmed with the time of the
\* timestamp save_event returned; an exception of save_event is answered
\* with the failure text; any other callback data is answered with nothing
button_handler(user_id, event_type, storage_ok) ==
  /\ IF event_type \in DOMAIN EVENT_TYPES
     THEN IF storage_ok
          THEN /\ save_event(user_id, event_type)
               /\ reply' = Sent("button", user_id, event_type, storage_ok,
                                "confirmation",
                                strftime_time(to_datetime(strftime(now))))
          ELSE /\ UNCHANGED <<events, sqlite_sequence>>
               /\ reply' = Sent("button", user_id, event_type, storage_ok,
                                "save_error", NoTime)
     ELSE /\ UNCHANGED <<events, sqlite_sequence>>
          /\ reply' = Sent("button", user_id, event_type, storage_ok,
                           "nothing_sent", NoTime)
  /\ UNCHANGED <<now, fallbacks>>

\* stats: the day's timeline, or the text that nothing was recorded today;
\* an exception is answered with the failure text
stats(user_id, storage_ok) ==
  /\ reply' = IF ~storage_ok
              THEN Sent("stats", user_id, NoData, storage_ok, "error_text", NoTime)
              ELSE IF create_timeline_plot(user_id) # None
              THEN Sent("stats", user_id, NoData, storage_ok, "photo", NoTime)
              ELSE Sent("stats", user_id, NoData, storage_ok, "no_events_text", NoTime)
  /\ UNCHANGED <<events, sqlite_sequence, now, fallbacks>>

\* week_stats: the week's scatter, or the text that nothing was recorded
\* this week; an exception is answered with the failure text
week_stats(user_id, storage_ok) ==
  /\ reply' = IF ~storage_ok
              THEN Sent("week_stats", user_id, NoData, storage_ok, "error_text", NoTime)
              ELSE IF create_week_plot(user_id) # None
              THEN Sent("week_stats", user_id, NoData, storage_ok, "photo", NoTime)
              ELSE Sent("week_stats", user_id, NoData, storage_ok, "no_events_text", NoTime)
  /\ UNCHANGED <<events, sqlite_sequence, now, fallbacks>>

\* all_data: the CSV document, or the text that nothing was recorded; an
\* exception is answered with the failure text
all_data(user_id, storage_ok) ==
  /\ reply' = IF ~storage_ok
              THEN Sent("all_data", user_id, NoData, storage_ok, "error_text", NoTime)
              ELSE IF create_csv_data(user_id) # None
              THEN Sent("all_data", user_id, NoData, storage_ok, "document", NoTime)
              ELSE Sent("all_data", user_id, NoData, storage_ok, "no_events_text", NoTime)
  /\ UNCHANGED <<events, sqlite_sequence, now, fallbacks>>

\* start: the welcome text
start(user_id) ==
  /\ reply' = Sent("start", user_id, NoData, TRUE, "welcome_text", NoTime)
  /\ UNCHANGED <<events, sqlite_sequence, now, fallbacks>>

\* help_command: the help text
help_command(user_id) ==
  /\ reply' = Sent("help", user_id, NoData, TRUE, "help_text", NoTime)
  /\ UNCHANGED <<events, sqlite_sequence, now, fallbacks>>

(* ------------------------------ the clock ----------------------------- *)
\* datetime.now() later reads a later local time, up to last
ClockAdvance(last) ==
  /\ \E t \in (now + 1)..last : now' = t
  /\ UNCHANGED <<events, sqlite_sequence, fallbacks, reply>>

\* datetime.now() is naive local time: when the local time is set back (the
\* end of daylight saving time) it reads an earlier time than before
ClockFallBack ==
  /\ fallbacks < MaxFallBacks
  /\ now > 0
  /\ now' = now - 1
  /\ fallbacks' = fallbacks + 1
  /\ UNCHANGED <<events, sqlite_sequence, reply>>

(* --------------------------- specifications --------------------------- *)
\* after SleepTrackerBot() on a new database file: an empty table
Init ==
  /\ events = <<>>
  /\ sqlite_sequence = 0
  /\ now = 0
  /\ fallbacks = 0
  /\ reply = [op |-> "", user_id |-> NoUser, data |-> NoData, storage_ok |-> TRUE,
              out |-> "", time |-> NoTime, n |-> 0]

\* Spec: every handler of the application, over two days
Next ==
  \/ /\ Len(events) < MaxEvents
     /\ \E u \in Users, d \in FewCallbackData, ok \in BOOLEAN : button_handler(u, d, ok)
  \/ \E u \in Users, ok \in BOOLEAN : stats(u, ok)
  \/ \E u \in Users, ok \in BOOLEAN : week_stats(u, ok)
  \/ \E u \in Users, ok \in BOOLEAN : all_data(u, ok)
  \/ \E u \in Users : start(u)
  \/ \E u \in Users : help_command(u)
  \/ ClockAdvance(MaxNow)
  \/ ClockFallBack

Spec == Init /\ [][Next]_vars

\* SpecLog: the button presses that write the log, over two days
NextLog ==
  \/ /\ Len(events) < MaxEvents
     /\ \E u \in Users, d \in CallbackData, ok \in BOOLEAN : button_handler(u, d, ok)
  \/ ClockAdvance(MaxNow)
  \/ ClockFallBack

SpecLog == Init /\ [][NextLog]_vars

\* SpecWeek: the presses of one button, over more than a week
NextWeek ==
  \/ /\ Len(events) < MaxWeekEvents
     /\ \E u \in Users : button_handler(u, "sleep", TRUE)
  \/ ClockAdvance(MaxWeekNow)
  \/ ClockFallBack

SpecWeek == Init /\ [][NextWeek]_vars

\* SpecIso: the presses of one button by the two users, over two days
NextIso ==
  \/ /\ Len(events) < MaxEvents
     /\ \E u \in Users : button_handler(u, "breakfast", TRUE)
  \/ ClockAdvance(MaxNow)
  \/ ClockFallBack

SpecIso == Init /\ [][NextIso]_vars

(* ============================== claims ================================ *)

\* the rows of a user, in the order of their insertion
Recorded(user_id) ==
  Columns(SelectSeq(events, LAMBDA r : r.user_id = user_id))

\* how often x occurs in the sequence s
Count(s, x) == Cardinality({i \in 1..Len(s) : s[i] = x})

\* s and t hold the same elements, each as often
SameBag(s, t) ==
  /\ Len(s) = Len(t)
  /\ \A i \in 1..Len(s) : Count(s, s[i]) = Count(t, s[i])

\* the timestamps of s never decrease
Ascending(s) ==
  \A i, j \in 1..Len(s) : i < j => TextLeq(s[i].timestamp, s[j].timestamp)

\* C1 (as claimed): for every user, get_all_events returns the user's
\* recorded events in the order of their insertion.
C1_InsertionOrder ==
  \A u \in Users : get_all_events(u) = Recorded(u)

\* C1 (amended): for every user, get_all_events returns exactly the user's
\* recorded events, each once, in ascending order of timestamp; this is the
\* order of insertion whenever no event of the user carries an earlier
\* timestamp than an event of the user inserted before it.
C1_TimestampOrder ==
  \A u \in Users :
    /\ SameBag(get_all_events(u), Recorded(u))
    /\ Ascending(get_all_events(u))
    /\ Ascending(Recorded(u)) => get_all_events(u) = Recorded(u)

\* C1 witness: a user has recorded two different events within one second,
\* and get_all_events returns them in the order of insertion.
C1_Witness ==
  \E u \in Users :
    /\ Len(Recorded(u)) = 2
    /\ Recorded(u)[1].timestamp = Recorded(u)[2].timestamp
    /\ Recorded(u)[1].event_type # Recorded(u)[2].event_type
    /\ get_all_events(u) = Recorded(u)

\* the (event_type, timestamp) pairs of the rows of a user that satisfy P
RecordedWhere(user_id, P(_)) ==
  Columns(SelectSeq(events, LAMBDA r : r.user_id = user_id /\ P(r)))

\* the current local calendar date, as a day number
Today == now \div SecondsPerDay

\* C2: at any moment and for every user, get_today_events returns exactly
\* the user's events whose timestamp has the current local calendar date
\* (each once, none of another date, none when no event has that date), in
\* ascending order of timestamp.
C2_TodayOnly ==
  \A u \in Users :
    LET df == get_today_events(u)
    IN /\ SameBag(df, RecordedWhere(u, LAMBDA r : r.timestamp[1] = Today))
       /\ \A i \in 1..Len(df) : df[i].timestamp[1] = Today
       /\ Ascending(df)
       /\ (\A i \in 1..Len(Recorded(u)) : Recorded(u)[i].timestamp[1] # Today)
            => df = <<>>

\* C2 witness: after midnight, a user who recorded an event on the day
\* before and one on the new day gets the new day's event alone.
C2_Witness ==
  \E u \in Users :
    /\ Len(Recorded(u)) = 2
    /\ Recorded(u)[1].timestamp[1] < Today
    /\ Recorded(u)[2].timestamp[1] = Today
    /\ get_today_events(u) = <<Recorded(u)[2]>>

\* the day number of the Monday that begins the Monday-Sunday span of day d
MondayOf(d) == CHOOSE m \in 0..d : m % DaysPerWeek = 0 /\ d - m < DaysPerWeek

\* the row is an event recorded on a Sunday at 23:59:59
SundayLastSecond(r) ==
  /\ r.timestamp[1] % DaysPerWeek = DaysPerWeek - 1
  /\ r.timestamp[2] = SecondsPerDay - 1

\* C3: whatever weekday today is, get_week_events returns exactly the
\* user's events with a timestamp on or after Monday 00:00:00 of the
\* current week, in ascending order of timestamp; an event recorded on a
\* Sunday at 23:59:59 is returned if and only if that Sunday belongs to the
\* Monday-Sunday span of today.
C3_SinceMonday ==
  \A u \in Users :
    LET df == get_week_events(u)
    IN /\ SameBag(df, RecordedWhere(u, LAMBDA r :
              to_datetime(r.timestamp) >= MondayOf(Today) * SecondsPerDay))
       /\ Ascending(df)
       /\ \A i \in 1..Len(events) :
            (events[i].user_id = u /\ SundayLastSecond(events[i])) =>
              ((\E j \in 1..Len(df) : df[j] = Columns(<<events[i]>>)[1])
                 <=> MondayOf(events[i].timestamp[1]) = MondayOf(Today))

\* C3 witness: today is the Monday after a Sunday on which a user recorded
\* an event at 23:59:59; the user has recorded another event today, and
\* get_week_events returns today's event alone.
C3_Witness ==
  \E u \in Users :
    /\ Today % DaysPerWeek = 0
    /\ Len(Recorded(u)) = 2
    /\ Recorded(u)[1].timestamp = <<Today - 1, SecondsPerDay - 1>>
    /\ Recorded(u)[2].timestamp[1] = Today
    /\ get_week_events(u) = <<Recorded(u)[2]>>

\* an update has been handled in this step
Handled == reply'.n # reply.n

\* the commands, which read the log
Commands == {"stats", "week_stats", "all_data", "start", "help"}

\* C4: the log is append-only and its rows never change: in every step every
\* stored row is still there, as it was; rows are only appended, with an id
\* larger than every id assigned before, so that ids are unique, strictly
\* increasing in the order of insertion and never reused; a command (a
\* query and its render) leaves the log as it is.
C4_AppendOnly ==
  [][/\ Len(events') >= Len(events)
     /\ \A i \in 1..Len(events) : events'[i] = events[i]
     /\ \A i \in (Len(events) + 1)..Len(events') :
          /\ events'[i].id > sqlite_sequence
          /\ events'[i].id <= sqlite_sequence'
     /\ \A i, j \in 1..Len(events') : i < j => events'[i].id < events'[j].id
     /\ (Handled /\ reply'.op \in Commands) =>
          (events' = events /\ sqlite_sequence' = sqlite_sequence)]_vars

\* C4 witness: two rows are stored, with the ids 1 and 2, and the last
\* update handled is an all_data command that sent the document.
C4_Witness ==
  /\ Len(events) = 2
  /\ events[1].id = 1 /\ events[2].id = 2
  /\ reply.op = "all_data" /\ reply.out = "document"

\* every element of the query result df is an event of the user, and no
\* event of the user is in it more often than it was recorded
OnlyOwn(df, user_id) ==
  LET own == Recorded(user_id)
  IN \A i \in 1..Len(df) :
       /\ Count(df, df[i]) <= Count(own, df[i])
       /\ \E j \in 1..Len(events) :
            events[j].user_id = user_id /\ Columns(<<events[j]>>)[1] = df[i]

\* what the queries and the renderers return for a user
Views(user_id) ==
  <<get_all_events(user_id), get_today_events(user_id), get_week_events(user_id),
    create_timeline_plot(user_id), create_week_plot(user_id),
    create_csv_data(user_id)>>

\* C5: each of get_all_events, get_today_events and get_week_events called
\* for a user returns events of that user only, and a button press of a user
\* that records an event changes no query result and no render of any other
\* user.
C5_Isolation ==
  /\ [](\A u \in Users :
         LET all == get_all_events(u)
             today == get_today_events(u)
             week == get_week_events(u)
         IN OnlyOwn(all, u) /\ OnlyOwn(today, u) /\ OnlyOwn(week, u))
  /\ [][events' # events =>
          \A u \in Users \ {reply'.user_id} : Views(u)' = Views(u)]_vars

\* C5 witness: both users have recorded an event, user 2 last, and
\* get_all_events returns to user 1 the one event user 1 recorded.
C5_Witness ==
  /\ Len(events) = 2
  /\ events[1].user_id = 1 /\ events[2].user_id = 2
  /\ reply.op = "button" /\ reply.user_id = 2 /\ reply.out = "confirmation"
  /\ get_all_events(1) = Columns(<<events[1]>>)

\* C6: for a user with no recorded event, the three queries return empty
\* sequences and the three renderers return None; and whenever the renderer
\* of a stats, week_stats or all_data command returns None, the command
\* answers with its text that there is nothing to show, not with the failure
\* text.
C6_EmptyIsNotAnError ==
  /\ [](\A u \in Users :
         Recorded(u) = <<>> => Views(u) = <<<<>>, <<>>, <<>>, None, None, None>>)
  /\ [][(Handled /\ reply'.storage_ok) =>
          /\ (reply'.op = "stats" /\ create_timeline_plot(reply'.user_id) = None)
               => reply'.out = "no_events_text"
          /\ (reply'.op = "week_stats" /\ create_week_plot(reply'.user_id) = None)
               => reply'.out = "no_events_text"
          /\ (reply'.op = "all_data" /\ create_csv_data(reply'.user_id) = None)
               => reply'.out = "no_events_text"]_vars

\* C6 witness: a user who has never recorded an event, while the other user
\* has, sent all_data and was answered that there is nothing to show.
C6_Witness ==
  /\ reply.op = "all_data" /\ reply.out = "no_events_text"
  /\ Recorded(reply.user_id) = <<>>
  /\ events # <<>>
  /\ create_csv_data(reply.user_id) = None

\* C7 (as claimed): for a user with at least one event, the document of
\* create_csv_data is the header row followed by one row per event of
\* get_all_events, in its order, and row i carries the kind of the i-th event
\* and, as its raw timestamp, the timestamp recorded for the i-th event.
C7_RoundTrip ==
  \A u \in Users :
    LET df == get_all_events(u)
        document == create_csv_data(u)
    IN df # <<>> =>
         /\ document # None
         /\ document.csv[1] = CsvHeader
         /\ Len(document.csv) = 1 + Len(df)
         /\ \A i \in 1..Len(df) :
              /\ document.csv[i + 1][4] = df[i].event_type
              /\ document.csv[i + 1][5] = df[i].timestamp

\* the generic failure texts of the handlers
FailureNotices == {"save_error", "error_text"}

\* the row appended in this step is the one event the button press handled
\* in this step records: its user, its kind, the wall-clock time as timestamp
OneEventInserted ==
  /\ Len(events') = Len(events) + 1
  /\ SubSeq(events', 1, Len(events)) = events
  /\ events'[Len(events')].user_id = reply'.user_id
  /\ events'[Len(events')].event_type = reply'.data
  /\ events'[Len(events')].timestamp = <<now \div SecondsPerDay, now % SecondsPerDay>>

\* C8: a button press of a known kind handled while the storage is
\* unavailable leaves the log unchanged (no row, no id used) and is answered
\* with the failure text, not with a confirmation; handled while the storage
\* is available it appends exactly one event and is answered with the
\* confirmation that carries the time of the timestamp recorded.
C8_StorageUnavailable ==
  [][(Handled /\ reply'.op = "button" /\ reply'.data \in DOMAIN EVENT_TYPES) =>
       IF reply'.storage_ok
       THEN /\ OneEventInserted
            /\ reply'.out = "confirmation"
            /\ reply'.time = <<events'[Len(events')].timestamp[2]>>
       ELSE /\ events' = events
            /\ sqlite_sequence' = sqlite_sequence
            /\ reply'.out = "save_error"]_vars

\* C8 witness: after one event was recorded, a button press of a known kind
\* met the storage unavailable: it was answered with the failure text and
\* the log holds the one event.
C8_Witness ==
  /\ reply.op = "button" /\ reply.data \in DOMAIN EVENT_TYPES
  /\ ~reply.storage_ok /\ reply.out = "save_error"
  /\ Len(events) = 1

\* C9 (as claimed): a button press whose callback data is none of the seven
\* known kinds is answered with a generic failure notice.
C9_UnknownKindNotice ==
  (reply.op = "button" /\ reply.data \notin DOMAIN EVENT_TYPES)
    => reply.out \in FailureNotices

\* every stored event has one of the seven known kinds
ClosedSet == \A i \in 1..Len(events) : events[i].event_type \in DOMAIN EVENT_TYPES

\* C10 (as claimed): every stored event has a known kind; a button press
\* with any other callback data inserts nothing, and each button press with
\* a known kind inserts exactly one event, whose timestamp is the wall-clock
\* time of the insertion.
C10_ClosedSet ==
  /\ []ClosedSet
  /\ [][(Handled /\ reply'.op = "button") =>
          IF reply'.data \in DOMAIN EVENT_TYPES
          THEN OneEventInserted
          ELSE events' = events]_vars

\* C10 (amended): every stored event has a known kind; a button press with
\* any other callback data inserts nothing; a button press with a known kind
\* inserts exactly one event, whose timestamp is the wall-clock time of the
\* insertion, when the storage is available, and nothing when it is not.
C10_ClosedSetStorage ==
  /\ []ClosedSet
  /\ [][(Handled /\ reply'.op = "button") =>
          IF reply'.data \in DOMAIN EVENT_TYPES /\ reply'.storage_ok
          THEN OneEventInserted
          ELSE events' = events]_vars

\* C10 witness: after an event of a known kind was recorded, a button press
\* with callback data of no known kind was handled, and the log holds the
\* one event, of a known kind.
C10_Witness ==
  /\ reply.op = "button" /\ reply.data \notin DOMAIN EVENT_TYPES
  /\ Len(events) = 1
  /\ events[1].event_type \in DOMAIN EVENT_TYPES

====
